---- MODULE Spec2Model ----
(***************************************************************************)
(* Verification model of csupenn/workflow-core: the dependency sorter      *)
(* (topologicalSort, getNodeInputs), the validator's graph analysis        *)
(* (detectCycles, validateWorkflow) and the ExecutionEngine.               *)
(*                                                                         *)
(* Node ids are strings.  A node is a record [id, type, x] (x is           *)
(* position.x); an edge is a record [source, target].  JavaScript values   *)
(* are written as their literals ("undefined", "''", "0", "false", ...).   *)
(***************************************************************************)
EXTENDS Integers, Sequences, FiniteSets, TLC

VARIABLES
  nodes,       \* the nodes array handed to the operation
  edges,       \* the edges array handed to the operation
  op,          \* which operation has been applied ("idle" before the call)
  sortOut,     \* topologicalSort's return value, once called
  cyclesOut,   \* detectCycles' return value, once called
  resultsArg,  \* getNodeInputs' results map
  inputsOut,   \* getNodeInputs' return value and the edges array after the call
  validateOut, \* validateWorkflow's outcome: the issue list, or the exception
  abortController, \* ExecutionEngine.abortController: a controller id, 0 = undefined
  aborted,     \* the controllers whose signal.aborted is true
  runs,        \* per executeWorkflow call: its position, locals, events and return value
  abortAt,     \* per call: the number of nodes it had started when abort() was
               \* first called, -1 while abort() has not been called
  issuesArg,   \* the issue list handed to calculateValidationScore
  scoreOut,    \* its score and the grade getValidationGrade gives that score
  nodeArg,     \* the node and inputs handed to executeNode
  nodeOut,     \* the settled outcome of executeNode
  urlArg,      \* the string handed to isUrlSafe
  urlOut,      \* isUrlSafe's return value
  apiKeysArg,  \* the credentials handed to validateApiKeys
  keysOut      \* validateApiKeys' return value

engineVars == <<abortController, aborted, runs, abortAt>>

callVars == <<issuesArg, scoreOut, nodeArg, nodeOut, urlArg, urlOut, apiKeysArg, keysOut>>

vars == <<nodes, edges, op, sortOut, cyclesOut, resultsArg, inputsOut, validateOut,
          abortController, aborted, runs, abortAt,
          issuesArg, scoreOut, nodeArg, nodeOut, urlArg, urlOut, apiKeysArg, keysOut>>

(* ------------------------------ bounds --------------------------------- *)
MaxNodes == 3
MaxEdges == 2

IdPool == <<"A", "B", "C", "D", "E", "F">>
NodeIds == {IdPool[i] : i \in 1..MaxNodes}
\* an id that edges may name although no node carries it (dangling endpoint)
DanglingIds == {"X"}
AllIds == NodeIds \cup DanglingIds

(* ------------------------------ helpers -------------------------------- *)
Range(s) == {s[i] : i \in 1..Len(s)}

SeqsUpTo(S, n) == UNION {[1..k -> S] : k \in 0..n}

\* arrays without a repeated element (node ids are unique within a graph)
InjectiveSeqs(S, n) == {s \in SeqsUpTo(S, n) : \A i, j \in 1..Len(s) : s[i] = s[j] => i = j}

EdgeRecs == [source : AllIds, target : AllIds]

\* an edges array: the i-th edge carries the id i
mkEdges(s) == [i \in 1..Len(s) |-> [id |-> i, source |-> s[i].source, target |-> s[i].target]]

\* node.data: the fields the code reads, "undefined" when absent
NoData == [model |-> "undefined", url |-> "undefined", content |-> "undefined",
           condition |-> "undefined", prompt |-> "undefined", code |-> "undefined"]

mkNode(id) == [id |-> id, type |-> "start", x |-> 0, data |-> NoData]

\* the values JavaScript treats as false in `!v` and `v || d`
Falsy == {"undefined", "null", "''", "0", "false", "NaN"}
truthy(v) == v \notin Falsy

\* the absent value of an optional field is the empty option
Undefined == {}
Some(v) == {v}
Get(opt) == CHOOSE v \in opt : TRUE

RECURSIVE dedupe(_)
\* Array.from(new Set(a)): first occurrences, in order
dedupe(a) ==
  IF a = <<>> THEN <<>>
  ELSE LET init == dedupe(SubSeq(a, 1, Len(a) - 1))
           last == a[Len(a)]
       IN IF last \in Range(init) THEN init ELSE Append(init, last)

(* --------------------------- topologicalSort --------------------------- *)
\* adjacencyList.get(id) || [] : the targets of id's edges, in edge order
RECURSIVE adjacencyList(_, _)
adjacencyList(es, id) ==
  IF es = <<>> THEN <<>>
  ELSE LET rest == adjacencyList(SubSeq(es, 1, Len(es) - 1), id)
           e == es[Len(es)]
       IN IF e.source = id THEN Append(rest, e.target) ELSE rest

\* nodes.find(n => n.id === nodeId), as an option
findNode(ns, id) ==
  IF \E i \in 1..Len(ns) : ns[i].id = id
  THEN Some(ns[CHOOSE i \in 1..Len(ns) :
                 ns[i].id = id /\ \A j \in 1..(i - 1) : ns[j].id # id])
  ELSE Undefined

\* recursionStack.delete(nodeId)
leave_keepOnStack(st, nodeId) == st

leave(st, nodeId) == [st EXCEPT !.recursionStack = @ \ {nodeId}]

\* sorted.unshift(node): add to the beginning (reverse postorder)
unshift_asPush(sorted, node) == Append(sorted, node)

unshift(sorted, node) == <<node>> \o sorted

RECURSIVE dfs(_, _, _, _), dfsEach(_, _, _, _)
dfs(ns, es, st, nodeId) ==
  IF nodeId \in st.recursionStack
  THEN [st EXCEPT !.hasCycle = TRUE, !.cycleNodes = Append(@, nodeId)]
  ELSE IF nodeId \in st.visited
  THEN st
  ELSE LET s1 == [st EXCEPT !.visited = @ \cup {nodeId},
                            !.recursionStack = @ \cup {nodeId}]
           s2 == dfsEach(ns, es, s1, adjacencyList(es, nodeId))
           s3 == leave(s2, nodeId)
           node == findNode(ns, nodeId)
       IN IF node # Undefined
          THEN [s3 EXCEPT !.sorted = unshift(@, CHOOSE n \in node : TRUE)]
          ELSE s3

\* neighbors.forEach(neighborId => dfs(neighborId))
dfsEach(ns, es, st, ids) ==
  IF ids = <<>> THEN st
  ELSE dfsEach(ns, es, dfs(ns, es, st, Head(ids)), Tail(ids))

RECURSIVE dfsUnvisited(_, _, _, _)
\* nodes.forEach(node => { if (!visited.has(node.id)) dfs(node.id) })
dfsUnvisited(ns, es, st, rest) ==
  IF rest = <<>> THEN st
  ELSE LET id == Head(rest).id
           s1 == IF id \notin st.visited THEN dfs(ns, es, st, id) ELSE st
       IN dfsUnvisited(ns, es, s1, Tail(rest))

nodesWithIncoming(es) == {es[i].target : i \in 1..Len(es)}

entryNodes(ns, es) == SelectSeq(ns, LAMBDA n : n.id \notin nodesWithIncoming(es))

topologicalSort(ns, es) ==
  LET st0 == [visited |-> {}, recursionStack |-> {}, sorted |-> <<>>,
              hasCycle |-> FALSE, cycleNodes |-> <<>>]
      entry == entryNodes(ns, es)
      st1 == IF Len(entry) = 0 /\ Len(ns) > 0
             THEN dfs(ns, es, st0, ns[1].id)
             ELSE dfsEach(ns, es, st0, [i \in 1..Len(entry) |-> entry[i].id])
      st2 == dfsUnvisited(ns, es, st1, ns)
  IN [sorted |-> st2.sorted,
      hasCycle |-> st2.hasCycle,
      cycleNodes |-> IF st2.hasCycle THEN Some(dedupe(st2.cycleNodes)) ELSE Undefined]

(* ----------------------------- detectCycles ---------------------------- *)
\* currentPath.indexOf(neighbor), 0-based, -1 when absent
indexOf(path, id) ==
  IF \E i \in 1..Len(path) : path[i] = id
  THEN (CHOOSE i \in 1..Len(path) : path[i] = id /\ \A j \in 1..(i - 1) : path[j] # id) - 1
  ELSE -1

\* currentPath.slice(start): a negative start counts from the end
slice(path, start) ==
  LET from == IF start < 0 THEN (IF Len(path) + start < 0 THEN 0 ELSE Len(path) + start) ELSE start
  IN SubSeq(path, from + 1, Len(path))

RECURSIVE cycleDfs(_, _, _), cycleDfsLoop(_, _, _, _)
\* detectCycles' inner dfs: the state after the call and its return value
\* (`return true` leaves recStack and currentPath as they are)
cycleDfs(es, st, nodeId) ==
  LET s1 == [st EXCEPT !.visited = @ \cup {nodeId},
                       !.recStack = @ \cup {nodeId},
                       !.currentPath = Append(@, nodeId)]
  IN cycleDfsLoop(es, s1, nodeId, adjacencyList(es, nodeId))

\* for (const neighbor of neighbors) { ... } and the code after the loop
cycleDfsLoop(es, st, nodeId, neighbors) ==
  IF neighbors = <<>>
  THEN [st |-> [st EXCEPT !.recStack = @ \ {nodeId},
                          !.currentPath = SubSeq(@, 1, Len(@) - 1)],
        ret |-> FALSE]
  ELSE LET neighbor == Head(neighbors)
       IN IF neighbor \notin st.visited
          THEN LET r == cycleDfs(es, st, neighbor)
               IN IF r.ret THEN [st |-> r.st, ret |-> TRUE]
                  ELSE cycleDfsLoop(es, r.st, nodeId, Tail(neighbors))
          ELSE IF neighbor \in st.recStack
          THEN LET cycleStart == indexOf(st.currentPath, neighbor)
                   cycle == slice(st.currentPath, cycleStart)
               IN [st |-> [st EXCEPT !.cycles = Append(@, Append(cycle, neighbor))],
                   ret |-> TRUE]
          ELSE cycleDfsLoop(es, st, nodeId, Tail(neighbors))

\* only the first node of the array is taken as a root
cycleDfsAll_firstOnly(es, st, rest) ==
  IF rest = <<>> THEN st
  ELSE LET id == Head(rest).id
       IN IF id \notin st.visited THEN cycleDfs(es, st, id).st ELSE st

RECURSIVE cycleDfsAll(_, _, _)
\* for (const node of nodes) { if (!visited.has(node.id)) dfs(node.id) }
cycleDfsAll(es, st, rest) ==
  IF rest = <<>> THEN st
  ELSE LET id == Head(rest).id
           s1 == IF id \notin st.visited THEN cycleDfs(es, st, id).st ELSE st
       IN cycleDfsAll(es, s1, Tail(rest))

detectCycles(ns, es) ==
  cycleDfsAll(es, [visited |-> {}, recStack |-> {}, currentPath |-> <<>>, cycles |-> <<>>], ns).cycles

(* ------------------------------- isUrlSafe ----------------------------- *)
\* host names are sequences of characters
BLOCKED_HOSTS ==
  << <<"l", "o", "c", "a", "l", "h", "o", "s", "t">>,
     <<"1", "2", "7", ".", "0", ".", "0", ".", "1">>,
     <<"0", ".", "0", ".", "0", ".", "0">>,
     <<"1", "6", "9", ".", "2", "5", "4", ".", "1", "6", "9", ".", "2", "5", "4">>,
     <<"m", "e", "t", "a", "d", "a", "t", "a", ".", "g", "o", "o", "g", "l", "e", ".",
       "i", "n", "t", "e", "r", "n", "a", "l">>,
     <<"1", "0", ".">>,
     <<"1", "7", "2", ".", "1", "6", ".">>,
     <<"1", "9", "2", ".", "1", "6", "8", ".">> >>

\* new URL(url): protocol and hostname of the URLs the model uses; the
\* empty option when the constructor throws
parseUrl(url) ==
  CASE url = "http://127.0.0.1/admin" ->
         Some([protocol |-> "http:", hostname |-> <<"1", "2", "7", ".", "0", ".", "0", ".", "1">>])
    [] url = "https://api.dev/v1" ->
         Some([protocol |-> "https:", hostname |-> <<"a", "p", "i", ".", "d", "e", "v">>])
    [] url = "http://localhost/" ->
         Some([protocol |-> "http:", hostname |-> <<"l", "o", "c", "a", "l", "h", "o", "s", "t">>])
    [] url = "https://localhost/" ->
         Some([protocol |-> "https:", hostname |-> <<"l", "o", "c", "a", "l", "h", "o", "s", "t">>])
    [] url = "ftp://localhost/" ->
         Some([protocol |-> "ftp:", hostname |-> <<"l", "o", "c", "a", "l", "h", "o", "s", "t">>])
    [] url = "http://LOCALHOST/" ->
         Some([protocol |-> "http:", hostname |-> <<"l", "o", "c", "a", "l", "h", "o", "s", "t">>])
    [] url = "https://LOCALHOST/" ->
         Some([protocol |-> "https:", hostname |-> <<"l", "o", "c", "a", "l", "h", "o", "s", "t">>])
    [] url = "ftp://LOCALHOST/" ->
         Some([protocol |-> "ftp:", hostname |-> <<"l", "o", "c", "a", "l", "h", "o", "s", "t">>])
    [] url = "http://localhost.evil.com/" ->
         Some([protocol |-> "http:", hostname |-> <<"l", "o", "c", "a", "l", "h", "o", "s", "t", ".", "e", "v", "i", "l", ".", "c", "o", "m">>])
    [] url = "https://localhost.evil.com/" ->
         Some([protocol |-> "https:", hostname |-> <<"l", "o", "c", "a", "l", "h", "o", "s", "t", ".", "e", "v", "i", "l", ".", "c", "o", "m">>])
    [] url = "ftp://localhost.evil.com/" ->
         Some([protocol |-> "ftp:", hostname |-> <<"l", "o", "c", "a", "l", "h", "o", "s", "t", ".", "e", "v", "i", "l", ".", "c", "o", "m">>])
    [] url = "http://notlocalhost.com/" ->
         Some([protocol |-> "http:", hostname |-> <<"n", "o", "t", "l", "o", "c", "a", "l", "h", "o", "s", "t", ".", "c", "o", "m">>])
    [] url = "https://notlocalhost.com/" ->
         Some([protocol |-> "https:", hostname |-> <<"n", "o", "t", "l", "o", "c", "a", "l", "h", "o", "s", "t", ".", "c", "o", "m">>])
    [] url = "ftp://notlocalhost.com/" ->
         Some([protocol |-> "ftp:", hostname |-> <<"n", "o", "t", "l", "o", "c", "a", "l", "h", "o", "s", "t", ".", "c", "o", "m">>])
    [] url = "http://127.0.0.1/" ->
         Some([protocol |-> "http:", hostname |-> <<"1", "2", "7", ".", "0", ".", "0", ".", "1">>])
    [] url = "https://127.0.0.1/" ->
         Some([protocol |-> "https:", hostname |-> <<"1", "2", "7", ".", "0", ".", "0", ".", "1">>])
    [] url = "ftp://127.0.0.1/" ->
         Some([protocol |-> "ftp:", hostname |-> <<"1", "2", "7", ".", "0", ".", "0", ".", "1">>])
    [] url = "http://127.0.0.10/" ->
         Some([protocol |-> "http:", hostname |-> <<"1", "2", "7", ".", "0", ".", "0", ".", "1", "0">>])
    [] url = "https://127.0.0.10/" ->
         Some([protocol |-> "https:", hostname |-> <<"1", "2", "7", ".", "0", ".", "0", ".", "1", "0">>])
    [] url = "ftp://127.0.0.10/" ->
         Some([protocol |-> "ftp:", hostname |-> <<"1", "2", "7", ".", "0", ".", "0", ".", "1", "0">>])
    [] url = "http://0.0.0.0/" ->
         Some([protocol |-> "http:", hostname |-> <<"0", ".", "0", ".", "0", ".", "0">>])
    [] url = "https://0.0.0.0/" ->
         Some([protocol |-> "https:", hostname |-> <<"0", ".", "0", ".", "0", ".", "0">>])
    [] url = "ftp://0.0.0.0/" ->
         Some([protocol |-> "ftp:", hostname |-> <<"0", ".", "0", ".", "0", ".", "0">>])
    [] url = "http://169.254.169.254/" ->
         Some([protocol |-> "http:", hostname |-> <<"1", "6", "9", ".", "2", "5", "4", ".", "1", "6", "9", ".", "2", "5", "4">>])
    [] url = "https://169.254.169.254/" ->
         Some([protocol |-> "https:", hostname |-> <<"1", "6", "9", ".", "2", "5", "4", ".", "1", "6", "9", ".", "2", "5", "4">>])
    [] url = "ftp://169.254.169.254/" ->
         Some([protocol |-> "ftp:", hostname |-> <<"1", "6", "9", ".", "2", "5", "4", ".", "1", "6", "9", ".", "2", "5", "4">>])
    [] url = "http://metadata.google.internal/" ->
         Some([protocol |-> "http:", hostname |-> <<"m", "e", "t", "a", "d", "a", "t", "a", ".", "g", "o", "o", "g", "l", "e", ".", "i", "n", "t", "e", "r", "n", "a", "l">>])
    [] url = "https://metadata.google.internal/" ->
         Some([protocol |-> "https:", hostname |-> <<"m", "e", "t", "a", "d", "a", "t", "a", ".", "g", "o", "o", "g", "l", "e", ".", "i", "n", "t", "e", "r", "n", "a", "l">>])
    [] url = "ftp://metadata.google.internal/" ->
         Some([protocol |-> "ftp:", hostname |-> <<"m", "e", "t", "a", "d", "a", "t", "a", ".", "g", "o", "o", "g", "l", "e", ".", "i", "n", "t", "e", "r", "n", "a", "l">>])
    [] url = "http://10.0.0.5/" ->
         Some([protocol |-> "http:", hostname |-> <<"1", "0", ".", "0", ".", "0", ".", "5">>])
    [] url = "https://10.0.0.5/" ->
         Some([protocol |-> "https:", hostname |-> <<"1", "0", ".", "0", ".", "0", ".", "5">>])
    [] url = "ftp://10.0.0.5/" ->
         Some([protocol |-> "ftp:", hostname |-> <<"1", "0", ".", "0", ".", "0", ".", "5">>])
    [] url = "http://10.example.com/" ->
         Some([protocol |-> "http:", hostname |-> <<"1", "0", ".", "e", "x", "a", "m", "p", "l", "e", ".", "c", "o", "m">>])
    [] url = "https://10.example.com/" ->
         Some([protocol |-> "https:", hostname |-> <<"1", "0", ".", "e", "x", "a", "m", "p", "l", "e", ".", "c", "o", "m">>])
    [] url = "ftp://10.example.com/" ->
         Some([protocol |-> "ftp:", hostname |-> <<"1", "0", ".", "e", "x", "a", "m", "p", "l", "e", ".", "c", "o", "m">>])
    [] url = "http://100.1.1.1/" ->
         Some([protocol |-> "http:", hostname |-> <<"1", "0", "0", ".", "1", ".", "1", ".", "1">>])
    [] url = "https://100.1.1.1/" ->
         Some([protocol |-> "https:", hostname |-> <<"1", "0", "0", ".", "1", ".", "1", ".", "1">>])
    [] url = "ftp://100.1.1.1/" ->
         Some([protocol |-> "ftp:", hostname |-> <<"1", "0", "0", ".", "1", ".", "1", ".", "1">>])
    [] url = "http://172.16.0.1/" ->
         Some([protocol |-> "http:", hostname |-> <<"1", "7", "2", ".", "1", "6", ".", "0", ".", "1">>])
    [] url = "https://172.16.0.1/" ->
         Some([protocol |-> "https:", hostname |-> <<"1", "7", "2", ".", "1", "6", ".", "0", ".", "1">>])
    [] url = "ftp://172.16.0.1/" ->
         Some([protocol |-> "ftp:", hostname |-> <<"1", "7", "2", ".", "1", "6", ".", "0", ".", "1">>])
    [] url = "http://172.17.0.1/" ->
         Some([protocol |-> "http:", hostname |-> <<"1", "7", "2", ".", "1", "7", ".", "0", ".", "1">>])
    [] url = "https://172.17.0.1/" ->
         Some([protocol |-> "https:", hostname |-> <<"1", "7", "2", ".", "1", "7", ".", "0", ".", "1">>])
    [] url = "ftp://172.17.0.1/" ->
         Some([protocol |-> "ftp:", hostname |-> <<"1", "7", "2", ".", "1", "7", ".", "0", ".", "1">>])
    [] url = "http://172.31.255.1/" ->
         Some([protocol |-> "http:", hostname |-> <<"1", "7", "2", ".", "3", "1", ".", "2", "5", "5", ".", "1">>])
    [] url = "https://172.31.255.1/" ->
         Some([protocol |-> "https:", hostname |-> <<"1", "7", "2", ".", "3", "1", ".", "2", "5", "5", ".", "1">>])
    [] url = "ftp://172.31.255.1/" ->
         Some([protocol |-> "ftp:", hostname |-> <<"1", "7", "2", ".", "3", "1", ".", "2", "5", "5", ".", "1">>])
    [] url = "http://172.160.0.1/" ->
         Some([protocol |-> "http:", hostname |-> <<"1", "7", "2", ".", "1", "6", "0", ".", "0", ".", "1">>])
    [] url = "https://172.160.0.1/" ->
         Some([protocol |-> "https:", hostname |-> <<"1", "7", "2", ".", "1", "6", "0", ".", "0", ".", "1">>])
    [] url = "ftp://172.160.0.1/" ->
         Some([protocol |-> "ftp:", hostname |-> <<"1", "7", "2", ".", "1", "6", "0", ".", "0", ".", "1">>])
    [] url = "http://192.168.1.1/" ->
         Some([protocol |-> "http:", hostname |-> <<"1", "9", "2", ".", "1", "6", "8", ".", "1", ".", "1">>])
    [] url = "https://192.168.1.1/" ->
         Some([protocol |-> "https:", hostname |-> <<"1", "9", "2", ".", "1", "6", "8", ".", "1", ".", "1">>])
    [] url = "ftp://192.168.1.1/" ->
         Some([protocol |-> "ftp:", hostname |-> <<"1", "9", "2", ".", "1", "6", "8", ".", "1", ".", "1">>])
    [] url = "http://192.169.1.1/" ->
         Some([protocol |-> "http:", hostname |-> <<"1", "9", "2", ".", "1", "6", "9", ".", "1", ".", "1">>])
    [] url = "https://192.169.1.1/" ->
         Some([protocol |-> "https:", hostname |-> <<"1", "9", "2", ".", "1", "6", "9", ".", "1", ".", "1">>])
    [] url = "ftp://192.169.1.1/" ->
         Some([protocol |-> "ftp:", hostname |-> <<"1", "9", "2", ".", "1", "6", "9", ".", "1", ".", "1">>])
    [] url = "http://api.dev/" ->
         Some([protocol |-> "http:", hostname |-> <<"a", "p", "i", ".", "d", "e", "v">>])
    [] url = "https://api.dev/" ->
         Some([protocol |-> "https:", hostname |-> <<"a", "p", "i", ".", "d", "e", "v">>])
    [] url = "ftp://api.dev/" ->
         Some([protocol |-> "ftp:", hostname |-> <<"a", "p", "i", ".", "d", "e", "v">>])
    [] url = "http://example.com/" ->
         Some([protocol |-> "http:", hostname |-> <<"e", "x", "a", "m", "p", "l", "e", ".", "c", "o", "m">>])
    [] url = "https://example.com/" ->
         Some([protocol |-> "https:", hostname |-> <<"e", "x", "a", "m", "p", "l", "e", ".", "c", "o", "m">>])
    [] url = "ftp://example.com/" ->
         Some([protocol |-> "ftp:", hostname |-> <<"e", "x", "a", "m", "p", "l", "e", ".", "c", "o", "m">>])
    [] url = "http://[::1]/" ->
         Some([protocol |-> "http:", hostname |-> <<"[", ":", ":", "1", "]">>])
    [] url = "https://[::1]/" ->
         Some([protocol |-> "https:", hostname |-> <<"[", ":", ":", "1", "]">>])
    [] url = "ftp://[::1]/" ->
         Some([protocol |-> "ftp:", hostname |-> <<"[", ":", ":", "1", "]">>])
    [] url = "foo://LOCALHOST/" ->
         Some([protocol |-> "foo:", hostname |-> <<"L", "O", "C", "A", "L", "H", "O", "S", "T">>])
    [] url = "HTTP://api.dev/" ->
         Some([protocol |-> "http:", hostname |-> <<"a", "p", "i", ".", "d", "e", "v">>])
    [] url = "localhost:3000" ->
         Some([protocol |-> "localhost:", hostname |-> <<>>])
    [] url = "mailto:a@api.dev" ->
         Some([protocol |-> "mailto:", hostname |-> <<>>])
    [] OTHER -> Undefined

lowerChar(c) ==
  CASE c = "L" -> "l" [] c = "O" -> "o" [] c = "C" -> "c" [] c = "A" -> "a"
    [] c = "H" -> "h" [] c = "S" -> "s" [] c = "T" -> "t" [] OTHER -> c

toLowerCase(str) == [i \in 1..Len(str) |-> lowerChar(str[i])]

startsWith(str, prefix) ==
  Len(prefix) <= Len(str) /\ SubSeq(str, 1, Len(prefix)) = prefix

isUrlSafe_noProtocolCheck(url) ==
  LET parsed == parseUrl(url)
  IN IF parsed = Undefined THEN FALSE
     ELSE LET hostname == toLowerCase(Get(parsed).hostname)
          IN IF \E b \in 1..Len(BLOCKED_HOSTS) :
                  hostname = BLOCKED_HOSTS[b] \/ startsWith(hostname, BLOCKED_HOSTS[b])
             THEN FALSE
             ELSE TRUE

isUrlSafe(url) ==
  LET parsed == parseUrl(url)
  IN IF parsed = Undefined THEN FALSE
     ELSE LET hostname == toLowerCase(Get(parsed).hostname)
          IN IF \E b \in 1..Len(BLOCKED_HOSTS) :
                  hostname = BLOCKED_HOSTS[b] \/ startsWith(hostname, BLOCKED_HOSTS[b])
             THEN FALSE
             ELSE IF Get(parsed).protocol \notin {"http:", "https:"}
             THEN FALSE
             ELSE TRUE

(* ---------------------------- validateWorkflow ------------------------- *)
\* the depth of nested calls at which the runtime raises RangeError (call
\* stack exhausted); larger than the longest chain of any acyclic graph here
StackLimit == 8

mkIssue(type, nodeId, field, message) ==
  [type |-> type, nodeId |-> nodeId, field |-> field, message |-> message]

cycleIssues(ns, es) ==
  LET cycles == detectCycles(ns, es)
  IN [c \in 1..Len(cycles) |-> mkIssue("error", cycles[c][1], "undefined", "Cycle detected")]

connectedNodes(es) ==
  {es[i].source : i \in 1..Len(es)} \cup {es[i].target : i \in 1..Len(es)}

orphanNodes(ns, es) ==
  SelectSeq(ns, LAMBDA node :
    node.id \notin connectedNodes(es) /\ node.type # "start" /\ Len(ns) > 1)

orphanIssues(ns, es) ==
  LET orphans == orphanNodes(ns, es)
  IN [i \in 1..Len(orphans) |-> mkIssue("warning", orphans[i].id, "undefined", "Orphan node")]

startIssues(ns) ==
  IF ~(\E i \in 1..Len(ns) : ns[i].type = "start") /\ Len(ns) > 0
  THEN <<mkIssue("warning", "undefined", "undefined", "No Start node")>>
  ELSE <<>>

endIssues(ns, es) ==
  LET unreachable == SelectSeq(ns, LAMBDA node :
        /\ node.type = "end"
        /\ ~(\E i \in 1..Len(es) : es[i].target = node.id)
        /\ Len(ns) > 1)
  IN [i \in 1..Len(unreachable) |->
        mkIssue("warning", unreachable[i].id, "undefined", "Unreachable End node")]

\* the switch on node.type: at most one issue per node
configIssue(node) ==
  CASE node.type = "textModel" ->
         IF ~truthy(node.data.model)
         THEN <<mkIssue("error", node.id, "model", "Text Model node requires a model")>>
         ELSE <<>>
    [] node.type = "httpRequest" ->
         IF ~truthy(node.data.url)
         THEN <<mkIssue("error", node.id, "url", "HTTP Request node requires a URL")>>
         ELSE IF ~isUrlSafe(node.data.url)
         THEN <<mkIssue("error", node.id, "url", "Unsafe URL")>>
         ELSE <<>>
    [] node.type = "prompt" ->
         IF ~truthy(node.data.content)
         THEN <<mkIssue("warning", node.id, "content", "Prompt node has no content")>>
         ELSE <<>>
    [] node.type = "conditional" ->
         IF ~truthy(node.data.condition)
         THEN <<mkIssue("error", node.id, "condition", "Conditional node requires a condition")>>
         ELSE <<>>
    [] OTHER -> <<>>

RECURSIVE configIssues(_)
configIssues(ns) ==
  IF ns = <<>> THEN <<>> ELSE configIssue(Head(ns)) \o configIssues(Tail(ns))

unusedOutputIssues(ns, es) ==
  LET unused == SelectSeq(ns, LAMBDA node :
        node.id \notin nodesWithIncoming(es) /\ node.type # "end" /\ Len(ns) > 1)
  IN [i \in 1..Len(unused) |->
        mkIssue("info", unused[i].id, "undefined", "Node output not connected")]

RECURSIVE calculateChainLength(_, _, _, _), maxParentChain(_, _, _, _, _)
\* the memo after the call, the returned length, and whether the recursion
\* ran past the call stack (depth counts the nested calls)
calculateChainLength(es, chainLengths, nodeId, depth) ==
  IF depth > StackLimit
  THEN [chainLengths |-> chainLengths, length |-> 0, overflow |-> TRUE]
  ELSE IF nodeId \in DOMAIN chainLengths
  THEN [chainLengths |-> chainLengths, length |-> chainLengths[nodeId], overflow |-> FALSE]
  ELSE LET incomingEdges == SelectSeq(es, LAMBDA e : e.target = nodeId)
       IN IF Len(incomingEdges) = 0
          THEN [chainLengths |-> (nodeId :> 1) @@ chainLengths, length |-> 1, overflow |-> FALSE]
          ELSE LET r == maxParentChain(es, chainLengths, incomingEdges, depth + 1, 0)
                   length == r.length + 1
               IN IF r.overflow THEN r
                  ELSE [chainLengths |-> (nodeId :> length) @@ r.chainLengths,
                        length |-> length, overflow |-> FALSE]

\* Math.max(...incomingEdges.map(e => calculateChainLength(e.source))); every
\* length is at least 1, so the running maximum may start at 0
maxParentChain(es, chainLengths, incomingEdges, depth, acc) ==
  IF incomingEdges = <<>>
  THEN [chainLengths |-> chainLengths, length |-> acc, overflow |-> FALSE]
  ELSE LET r == calculateChainLength(es, chainLengths, Head(incomingEdges).source, depth)
       IN IF r.overflow THEN r
          ELSE maxParentChain(es, r.chainLengths, Tail(incomingEdges), depth,
                              IF r.length > acc THEN r.length ELSE acc)

RECURSIVE chainLengthsOf(_, _, _)
\* nodes.forEach(node => calculateChainLength(node.id))
chainLengthsOf(es, chainLengths, rest) ==
  IF rest = <<>>
  THEN [chainLengths |-> chainLengths, length |-> 0, overflow |-> FALSE]
  ELSE LET r == calculateChainLength(es, chainLengths, Head(rest).id, 1)
       IN IF r.overflow THEN r ELSE chainLengthsOf(es, r.chainLengths, Tail(rest))

LongChainDepth == 10

longChainIssues(ns, chainLengths) ==
  LET longChains == SelectSeq(ns, LAMBDA node :
        (IF node.id \in DOMAIN chainLengths THEN chainLengths[node.id] ELSE 0) > LongChainDepth)
  IN [i \in 1..Len(longChains) |->
        mkIssue("info", longChains[i].id, "undefined", "Long execution chain detected")]

\* the outcome of the call: the issue list, or the exception that leaves it
validateWorkflow(ns, es) ==
  LET issues == cycleIssues(ns, es) \o orphanIssues(ns, es) \o startIssues(ns)
                  \o endIssues(ns, es) \o configIssues(ns) \o unusedOutputIssues(ns, es)
      chains == chainLengthsOf(es, <<>>, ns)
  IN IF chains.overflow
     THEN [threw |-> TRUE, error |-> "RangeError: Maximum call stack size exceeded",
           issues |-> <<>>]
     ELSE [threw |-> FALSE, error |-> "undefined",
           issues |-> issues \o longChainIssues(ns, chains.chainLengths)]

(* ------------------------------ validateApiKeys ------------------------ *)
\* data.model.split("/")[0] for the model names the model uses
splitSlashFirst(model) ==
  CASE model = "openai/gpt-4o" -> "openai"
    [] model = "google/gemini-pro" -> "google"
    [] model = "gpt-4o" -> "gpt-4o"
    [] OTHER -> model

\* provider.charAt(0).toUpperCase() + provider.slice(1)
capitalize(provider) ==
  CASE provider = "openai" -> "Openai"
    [] provider = "google" -> "Google"
    [] provider = "gpt-4o" -> "Gpt-4o"
    [] OTHER -> provider

\* value.trim() for the credential strings the model uses
trim(value) ==
  CASE value = "' '" -> "''"
    [] value = "' sk-1 '" -> "'sk-1'"
    [] OTHER -> value

\* apiKeys[provider]
keyOf(apiKeys, provider) ==
  IF provider \in DOMAIN apiKeys THEN apiKeys[provider] ELSE "undefined"

\* the providers one node adds to requiredProviders, in order
providersOf(node) ==
  (IF node.type = "textModel" /\ truthy(node.data.model)
   THEN <<splitSlashFirst(node.data.model)>> ELSE <<>>)
  \o (IF node.type = "imageGeneration" THEN <<"google">> ELSE <<>>)

RECURSIVE requiredProviders(_)
\* the Set requiredProviders after nodes.forEach, in insertion order
requiredProviders(ns) ==
  IF ns = <<>> THEN <<>>
  ELSE dedupe(providersOf(ns[1]) \o requiredProviders(Tail(ns)))

missingKeyIssue(provider) ==
  mkIssue("error", "undefined", provider,
          <<"Missing ", capitalize(provider), " API Key - Workflow uses ", provider,
            " models but no key is configured">>)

validateApiKeys(apiKeys, ns) ==
  LET required == requiredProviders(ns)
      missing == SelectSeq(required, LAMBDA provider :
                   ~truthy(keyOf(apiKeys, provider)) \/ trim(keyOf(apiKeys, provider)) = "''")
  IN [i \in 1..Len(missing) |-> missingKeyIssue(missing[i])]

(* ------------------ calculateValidationScore and grade ----------------- *)
countOfType(issues, type) == Len(SelectSeq(issues, LAMBDA i : i.type = type))

max(a, b) == IF a >= b THEN a ELSE b

calculateValidationScore_noFloor(issues) ==
  LET errorCount == countOfType(issues, "error")
      warningCount == countOfType(issues, "warning")
  IN IF errorCount > 0 THEN max(0, 40 - errorCount * 10)
     ELSE IF warningCount > 0 THEN 90 - warningCount * 10
     ELSE 100

calculateValidationScore(issues) ==
  LET errorCount == countOfType(issues, "error")
      warningCount == countOfType(issues, "warning")
  IN IF errorCount > 0 THEN max(0, 40 - errorCount * 10)
     ELSE IF warningCount > 0 THEN max(60, 90 - warningCount * 10)
     ELSE 100

getValidationGrade_strict(score) ==
  IF score > 90 THEN "A"
  ELSE IF score > 80 THEN "B"
  ELSE IF score > 70 THEN "C"
  ELSE IF score > 60 THEN "D"
  ELSE "F"

getValidationGrade(score) ==
  IF score >= 90 THEN "A"
  ELSE IF score >= 80 THEN "B"
  ELSE IF score >= 70 THEN "C"
  ELSE IF score >= 60 THEN "D"
  ELSE "F"

(* ----------------------------- getNodeInputs --------------------------- *)
\* results.get(id): a Map lookup, undefined when no result is recorded
mapGet(results, id) == IF id \in DOMAIN results THEN results[id] ELSE "undefined"

\* nodePositions.get(source) || 0
positionOf(ns, source) ==
  LET node == findNode(ns, source)
  IN IF node = Undefined THEN 0 ELSE Get(node).x

\* the comparator (a, b) => posA - posB
compareByX_descending(ns, a, b) == positionOf(ns, b.source) - positionOf(ns, a.source)

compareByX(ns, a, b) == positionOf(ns, a.source) - positionOf(ns, b.source)

RECURSIVE insertStable(_, _, _)
\* insert e behind every element that does not compare greater than it
insertStable(ns, sorted, e) ==
  IF sorted = <<>> THEN <<e>>
  ELSE LET last == sorted[Len(sorted)]
       IN IF compareByX(ns, last, e) > 0
          THEN Append(insertStable(ns, SubSeq(sorted, 1, Len(sorted) - 1), e), last)
          ELSE Append(sorted, e)

RECURSIVE sortByX(_, _)
\* Array.prototype.sort with the comparator: a stable sort
sortByX(ns, arr) ==
  IF arr = <<>> THEN <<>>
  ELSE insertStable(ns, sortByX(ns, SubSeq(arr, 1, Len(arr) - 1)), arr[Len(arr)])

\* the return value (key inputK is the K-th element) and the edges array as
\* the call leaves it: filter() copies, so the sort works on the copy
getNodeInputs(nodeId, es, results, ns) ==
  LET incomingEdges == SelectSeq(es, LAMBDA e : e.target = nodeId)
      ordered == sortByX(ns, incomingEdges)
  IN [inputs |-> [k \in 1..Len(ordered) |-> mapGet(results, ordered[k].source)],
      order |-> [k \in 1..Len(ordered) |-> ordered[k].id],
      edges |-> es]

(* ---------------------------- ExecutionEngine -------------------------- *)
\* messages are sequences of text fragments; the empty sequence is "no error"
NoError == <<>>

RECURSIVE join(_, _)
\* ids.join(sep)
join(ids, sep) ==
  IF ids = <<>> THEN <<>>
  ELSE IF Len(ids) = 1 THEN <<ids[1]>>
  ELSE <<ids[1], sep>> \o join(Tail(ids), sep)

\* the ExecutionContext of the calls
context == [apiKeys |-> <<>>, variables |-> [initialInput |-> "5"]]

\* inputs.input1
input1(inputs) == IF Len(inputs) >= 1 THEN inputs[1] ELSE "undefined"

\* a || b
or(a, b) == IF truthy(a) THEN a ELSE b

returned(value) == [threw |-> FALSE, value |-> value, error |-> NoError]
thrown(message) == [threw |-> TRUE, value |-> "undefined", error |-> message]

\* new Function(...Object.keys(inputs), code)(...Object.values(inputs)) for
\* the code strings of the model
runFunction(code, inputs) ==
  CASE code = "throw new Error('boom')" -> thrown(<<"Error: boom">>)
    [] code = "return input1" ->
         IF Len(inputs) >= 1 THEN returned(inputs[1])
         ELSE thrown(<<"ReferenceError: input1 is not defined">>)
    [] code = "return \"\"" -> returned("''")
    [] code = "return true" -> returned("true")
    [] OTHER -> thrown(<<"SyntaxError: Unexpected token">>)

executePromptNode(node, inputs) ==
  \* the templates of the model hold no $input reference: replace() leaves them
  returned(or(node.data.prompt, "''"))

executeJavaScriptNode(node, inputs) ==
  LET code == or(node.data.code, "return \"\"")
      r == runFunction(code, inputs)
  IN IF r.threw THEN thrown(<<"JavaScript execution failed: ">> \o r.error) ELSE r

executeConditionalNode(node, inputs) ==
  LET condition == or(node.data.condition, "true")
      r == runFunction(IF condition = "true" THEN "return true"
                       ELSE IF condition = "input1" THEN "return input1"
                       ELSE "syntax error", inputs)
  IN IF r.threw THEN thrown(<<"Condition evaluation failed: ">> \o r.error)
     ELSE returned(IF truthy(r.value) THEN "true" ELSE "false")

\* the settled outcome of the promise executeNode returns
executeNode(node, inputs, ctx) ==
  CASE node.type = "start" ->
         returned(or(or(input1(inputs), ctx.variables.initialInput), "''"))
    [] node.type = "end" -> returned(or(input1(inputs), "''"))
    [] node.type = "prompt" -> executePromptNode(node, inputs)
    [] node.type = "javascript" -> executeJavaScriptNode(node, inputs)
    [] node.type = "conditional" -> executeConditionalNode(node, inputs)
    [] OTHER ->
         thrown(<<"Node type ", node.type,
                  " not implemented in base ExecutionEngine. Products must extend this class.">>)

mkUpdate(type, nodeId, output, error) ==
  [type |-> type, nodeId |-> nodeId, output |-> output, error |-> error]

\* a call that has not been made yet
IdleRun ==
  [pc |-> "idle", sorted |-> <<>>, idx |-> 0, results |-> <<>>, events |-> <<>>,
   pending |-> returned("undefined"), ret |-> Undefined]

\* the outer catch: emit the terminal error event and return the failure
failRun(run, errorMessage) ==
  [run EXCEPT !.pc = "done",
              !.events = Append(@, mkUpdate("error", "undefined", "undefined", errorMessage)),
              !.ret = Some([success |-> FALSE, results |-> <<>>, error |-> errorMessage])]

\* the abort check in front of each node: this.abortController.signal.aborted
checkAborted(controller, abortedSet) == controller \in abortedSet

\* the for loop from its idx-th iteration up to the next await, or the code
\* behind the loop
continueLoop(run, idx, ns, es, signalAborted) ==
  IF idx > Len(run.sorted)
  THEN [run EXCEPT !.pc = "done",
                   !.idx = idx,
                   !.events = Append(@, mkUpdate("complete", "undefined", "undefined", NoError)),
                   !.ret = Some([success |-> TRUE, results |-> run.results, error |-> NoError])]
  ELSE IF signalAborted
  THEN failRun([run EXCEPT !.idx = idx], <<"Execution aborted">>)
  ELSE LET node == run.sorted[idx]
           inputs == getNodeInputs(node.id, es, run.results, ns).inputs
       IN [run EXCEPT !.pc = "awaiting",
                      !.idx = idx,
                      !.events = Append(@, mkUpdate("node_start", node.id, "undefined", NoError)),
                      !.pending = executeNode(node, inputs, context)]

\* executeWorkflow from its call to its first await (or to its return)
beginRun_ignoreCycle(run, controller, abortedSet, ns, es) ==
  continueLoop([run EXCEPT !.sorted = topologicalSort(ns, es).sorted], 1, ns, es,
               checkAborted(controller, abortedSet))

beginRun(run, controller, abortedSet, ns, es) ==
  LET ts == topologicalSort(ns, es)
  IN IF ts.hasCycle
     THEN failRun(run, <<"Workflow contains cycles: ">> \o join(Get(ts.cycleNodes), ", "))
     ELSE continueLoop([run EXCEPT !.sorted = ts.sorted], 1, ns, es,
                       checkAborted(controller, abortedSet))

\* the inner catch: node_error, then the rethrow that the outer catch handles
nodeFailed_continue(run, controller, abortedSet, ns, es) ==
  LET node == run.sorted[run.idx]
      errorMessage == run.pending.error
      r1 == [run EXCEPT !.events =
               Append(@, mkUpdate("node_error", node.id, "undefined", errorMessage))]
  IN continueLoop(r1, run.idx + 1, ns, es, checkAborted(controller, abortedSet))

nodeFailed(run, controller, abortedSet, ns, es) ==
  LET node == run.sorted[run.idx]
      errorMessage == run.pending.error
      r1 == [run EXCEPT !.events =
               Append(@, mkUpdate("node_error", node.id, "undefined", errorMessage))]
  IN failRun(r1, <<"Node ", node.id, " failed: ">> \o errorMessage)

\* results.set and node_complete, then on to the next iteration
nodeCompleted_dropResult(run, controller, abortedSet, ns, es) ==
  LET node == run.sorted[run.idx]
      result == run.pending.value
      r1 == [run EXCEPT !.events = Append(@, mkUpdate("node_complete", node.id, result, NoError))]
  IN continueLoop(r1, run.idx + 1, ns, es, checkAborted(controller, abortedSet))

nodeCompleted(run, controller, abortedSet, ns, es) ==
  LET node == run.sorted[run.idx]
      result == run.pending.value
      r1 == [run EXCEPT !.results = (node.id :> result) @@ @,
                        !.events = Append(@, mkUpdate("node_complete", node.id, result, NoError))]
  IN continueLoop(r1, run.idx + 1, ns, es, checkAborted(controller, abortedSet))

\* executeWorkflow from the settling of the awaited promise to the next await
resumeRun(run, controller, abortedSet, ns, es) ==
  IF run.pending.threw
  THEN nodeFailed(run, controller, abortedSet, ns, es)
  ELSE nodeCompleted(run, controller, abortedSet, ns, es)

\* the engine before any call
MaxRuns == 1
RunIds == 1..MaxRuns
NoController == 0

EngineIdle ==
  /\ abortController = NoController
  /\ aborted = {}
  /\ runs = [r \in RunIds |-> IdleRun]
  /\ abortAt = [r \in RunIds |-> -1]

\* no scoring, node, URL or credential call has been made
CallsIdle ==
  /\ issuesArg = <<>>
  /\ scoreOut = Undefined
  /\ nodeArg = Undefined
  /\ nodeOut = Undefined
  /\ urlArg = "undefined"
  /\ urlOut = Undefined
  /\ apiKeysArg = <<>>
  /\ keysOut = Undefined

(* ------------------- specification: the graph sorter ------------------- *)

GraphInit ==
  /\ nodes \in {[i \in 1..Len(s) |-> mkNode(s[i])] : s \in InjectiveSeqs(NodeIds, MaxNodes)}
  /\ edges \in {mkEdges(s) : s \in SeqsUpTo(EdgeRecs, MaxEdges)}

SortInit ==
  /\ GraphInit
  /\ op = "idle"
  /\ sortOut = Undefined
  /\ cyclesOut = Undefined
  /\ resultsArg = <<>>
  /\ inputsOut = Undefined
  /\ validateOut = Undefined
  /\ EngineIdle
  /\ CallsIdle

CallTopologicalSort ==
  /\ op = "idle"
  /\ op' = "sorted"
  /\ sortOut' = Some(topologicalSort(nodes, edges))
  /\ UNCHANGED <<nodes, edges, cyclesOut, resultsArg, inputsOut, validateOut, engineVars, callVars>>

CallDetectCycles ==
  /\ op = "idle"
  /\ op' = "cycles"
  /\ cyclesOut' = Some(detectCycles(nodes, edges))
  /\ UNCHANGED <<nodes, edges, sortOut, resultsArg, inputsOut, validateOut, engineVars, callVars>>

SortNext == CallTopologicalSort \/ CallDetectCycles

SortSpec == SortInit /\ [][SortNext]_vars

(* ------------------- specification: input gathering -------------------- *)
MaxInputNodes == 2
MaxInputEdges == 3

XValues == {-2, 0, 3}

InputSourceIds == {IdPool[i] : i \in 1..MaxInputNodes} \cup DanglingIds

\* the node whose inputs are gathered
InputsNodeId == IdPool[1]

\* the result recorded for a node: a value that names the node
outputOf(id) == id

RECURSIVE subsequences(_)
\* the sub-arrays of an array, element order kept
subsequences(s) ==
  IF s = <<>> THEN {<<>>}
  ELSE LET rest == subsequences(Tail(s))
       IN rest \cup {<<Head(s)>> \o r : r \in rest}

InputsInit ==
  /\ \E ids \in subsequences(SubSeq(IdPool, 1, MaxInputNodes)) :
       nodes \in {[i \in 1..Len(ids) |-> [mkNode(ids[i]) EXCEPT !.x = xs[i]]] :
                    xs \in [1..Len(ids) -> XValues]}
  /\ edges \in {mkEdges(s) :
                  s \in SeqsUpTo([source : InputSourceIds, target : {InputsNodeId, IdPool[2]}],
                                 MaxInputEdges)}
  /\ resultsArg \in {[id \in R |-> outputOf(id)] : R \in {{InputsNodeId}, InputSourceIds}}
  /\ op = "idle"
  /\ sortOut = Undefined
  /\ cyclesOut = Undefined
  /\ inputsOut = Undefined
  /\ validateOut = Undefined
  /\ EngineIdle
  /\ CallsIdle

CallGetNodeInputs ==
  /\ op = "idle"
  /\ op' = "inputs"
  /\ LET r == getNodeInputs(InputsNodeId, edges, resultsArg, nodes)
     IN /\ inputsOut' = Some([inputs |-> r.inputs, order |-> r.order])
        /\ edges' = r.edges
  /\ UNCHANGED <<nodes, sortOut, cyclesOut, resultsArg, validateOut, engineVars, callVars>>

InputsNext == CallGetNodeInputs

InputsSpec == InputsInit /\ [][InputsNext]_vars

(* ---------------------- specification: the validator ------------------- *)
MaxValidateNodes == 3
MaxValidateEdges == 1

ValidateIds == {IdPool[i] : i \in 1..MaxValidateNodes} \cup DanglingIds

NodeKinds ==
  {[type |-> "start", data |-> NoData],
   [type |-> "end", data |-> NoData],
   [type |-> "textModel", data |-> NoData],
   [type |-> "httpRequest", data |-> [NoData EXCEPT !.url = "http://127.0.0.1/admin"]]}

ValidateInit ==
  /\ \E ids \in subsequences(SubSeq(IdPool, 1, MaxValidateNodes)) :
       nodes \in {[i \in 1..Len(ids) |->
                     [mkNode(ids[i]) EXCEPT !.type = ks[i].type, !.data = ks[i].data]] :
                    ks \in [1..Len(ids) -> NodeKinds]}
  /\ edges \in {mkEdges(s) :
                  s \in SeqsUpTo([source : ValidateIds, target : ValidateIds], MaxValidateEdges)}
  /\ op = "idle"
  /\ sortOut = Undefined
  /\ cyclesOut = Undefined
  /\ resultsArg = <<>>
  /\ inputsOut = Undefined
  /\ validateOut = Undefined
  /\ EngineIdle
  /\ CallsIdle

CallValidateWorkflow ==
  /\ op = "idle"
  /\ op' = "validated"
  /\ validateOut' = Some(validateWorkflow(nodes, edges))
  /\ UNCHANGED <<nodes, edges, sortOut, cyclesOut, resultsArg, inputsOut, engineVars, callVars>>

ValidateNext == CallValidateWorkflow

ValidateSpec == ValidateInit /\ [][ValidateNext]_vars

(* ----------------------- specification: the engine --------------------- *)
MaxRunNodes == 2
MaxRunEdges == 1

RunKinds ==
  {[type |-> "start", data |-> NoData],
   [type |-> "end", data |-> NoData],
   [type |-> "conditional", data |-> [NoData EXCEPT !.condition = "input1"]],
   [type |-> "javascript", data |-> [NoData EXCEPT !.code = "throw new Error('boom')"]],
   [type |-> "textModel", data |-> NoData]}

RunNodeIds == {IdPool[i] : i \in 1..MaxRunNodes}

EngineInit ==
  /\ \E ids \in subsequences(SubSeq(IdPool, 1, MaxRunNodes)) :
       nodes \in {[i \in 1..Len(ids) |->
                     [mkNode(ids[i]) EXCEPT !.type = ks[i].type, !.data = ks[i].data,
                                            !.x = Len(ids) - i]] :
                    ks \in [1..Len(ids) -> RunKinds]}
  /\ edges \in {mkEdges(s) :
                  s \in SeqsUpTo([source : RunNodeIds, target : RunNodeIds], MaxRunEdges)}
  /\ op = "engine"
  /\ sortOut = Undefined
  /\ cyclesOut = Undefined
  /\ resultsArg = <<>>
  /\ inputsOut = Undefined
  /\ validateOut = Undefined
  /\ EngineIdle
  /\ CallsIdle

nodeStarts(run) == Len(SelectSeq(run.events, LAMBDA u : u.type = "node_start"))

\* engine.executeWorkflow(nodes, edges, context, onUpdate) is called: the
\* call runs to its first await
ExecuteWorkflow(r) ==
  /\ runs[r].pc = "idle"
  /\ \A q \in DOMAIN runs : q < r => runs[q].pc # "idle"
  /\ abortController' = r
  /\ runs' = [runs EXCEPT ![r] = beginRun(@, r, aborted, nodes, edges)]
  /\ UNCHANGED <<nodes, edges, op, sortOut, cyclesOut, resultsArg, inputsOut, validateOut,
                 aborted, abortAt, callVars>>

\* the awaited executeNode promise settles and the call runs to its next
\* await or to its return
NodeSettles(r) ==
  /\ runs[r].pc = "awaiting"
  /\ runs' = [runs EXCEPT ![r] = resumeRun(@, abortController, aborted, nodes, edges)]
  /\ UNCHANGED <<nodes, edges, op, sortOut, cyclesOut, resultsArg, inputsOut, validateOut,
                 abortController, aborted, abortAt, callVars>>

\* engine.abort(): this.abortController?.abort()
Abort ==
  /\ aborted' = IF abortController # NoController THEN aborted \cup {abortController}
                ELSE aborted
  /\ abortAt' = [r \in DOMAIN abortAt |->
                   IF abortAt[r] = -1 /\ runs[r].pc # "done" THEN nodeStarts(runs[r])
                   ELSE abortAt[r]]
  /\ UNCHANGED <<nodes, edges, op, sortOut, cyclesOut, resultsArg, inputsOut, validateOut,
                 abortController, runs, callVars>>

EngineNext ==
  \/ \E r \in DOMAIN runs : ExecuteWorkflow(r)
  \/ \E r \in DOMAIN runs : NodeSettles(r)
  \/ Abort

EngineSpec == EngineInit /\ [][EngineNext]_vars

(* ----------------------- specification: scoring ------------------------ *)
MaxIssues == 5

IssueTypes == {"error", "warning", "info"}

issueOfType(type) == mkIssue(type, "undefined", "undefined", "issue")

scoreAndGrade(issues) ==
  LET score == calculateValidationScore(issues)
  IN [score |-> score, grade |-> getValidationGrade(score)]

ScoreInit ==
  /\ nodes = <<>>
  /\ edges = <<>>
  /\ op = "idle"
  /\ sortOut = Undefined
  /\ cyclesOut = Undefined
  /\ resultsArg = <<>>
  /\ inputsOut = Undefined
  /\ validateOut = Undefined
  /\ EngineIdle
  /\ issuesArg \in {[i \in 1..Len(ts) |-> issueOfType(ts[i])] : ts \in SeqsUpTo(IssueTypes, MaxIssues)}
  /\ scoreOut = Undefined
  /\ nodeArg = Undefined
  /\ nodeOut = Undefined
  /\ urlArg = "undefined"
  /\ urlOut = Undefined
  /\ apiKeysArg = <<>>
  /\ keysOut = Undefined

\* calculateValidationScore(issues), then getValidationGrade(score)
CallCalculateValidationScore ==
  /\ op = "idle"
  /\ op' = "scored"
  /\ scoreOut' = Some(scoreAndGrade(issuesArg))
  /\ UNCHANGED <<nodes, edges, sortOut, cyclesOut, resultsArg, inputsOut, validateOut,
                 engineVars, issuesArg, nodeArg, nodeOut, urlArg, urlOut, apiKeysArg, keysOut>>

\* one more issue is pushed to the list and the list is scored again
PushIssueAndScore(type) ==
  /\ op = "scored"
  /\ Len(issuesArg) <= MaxIssues
  /\ issuesArg' = Append(issuesArg, issueOfType(type))
  /\ scoreOut' = Some(scoreAndGrade(issuesArg'))
  /\ UNCHANGED <<nodes, edges, op, sortOut, cyclesOut, resultsArg, inputsOut, validateOut,
                 engineVars, nodeArg, nodeOut, urlArg, urlOut, apiKeysArg, keysOut>>

ScoreNext ==
  \/ CallCalculateValidationScore
  \/ \E type \in IssueTypes : PushIssueAndScore(type)

ScoreSpec == ScoreInit /\ [][ScoreNext]_vars

(* --------------------- specification: executeNode ---------------------- *)
MaxNodeInputs == 2

\* the values a node's input can take
InputValues == {"undefined", "''", "0", "false", "true", "5", "hello"}

ExecKinds ==
  RunKinds \cup
    {[type |-> "prompt", data |-> [NoData EXCEPT !.prompt = "hello"]],
     [type |-> "conditional", data |-> NoData]}

NodeInit ==
  /\ nodes = <<>>
  /\ edges = <<>>
  /\ op = "idle"
  /\ sortOut = Undefined
  /\ cyclesOut = Undefined
  /\ resultsArg = <<>>
  /\ inputsOut = Undefined
  /\ validateOut = Undefined
  /\ EngineIdle
  /\ issuesArg = <<>>
  /\ scoreOut = Undefined
  /\ nodeArg \in {Some([node |-> [mkNode(IdPool[1]) EXCEPT !.type = k.type, !.data = k.data],
                        inputs |-> inputs]) :
                    k \in ExecKinds, inputs \in SeqsUpTo(InputValues, MaxNodeInputs)}
  /\ nodeOut = Undefined
  /\ urlArg = "undefined"
  /\ urlOut = Undefined
  /\ apiKeysArg = <<>>
  /\ keysOut = Undefined

\* await this.executeNode(node, inputs, context)
CallExecuteNode ==
  /\ op = "idle"
  /\ op' = "executed"
  /\ nodeOut' = Some(executeNode(Get(nodeArg).node, Get(nodeArg).inputs, context))
  /\ UNCHANGED <<nodes, edges, sortOut, cyclesOut, resultsArg, inputsOut, validateOut,
                 engineVars, issuesArg, scoreOut, nodeArg, urlArg, urlOut, apiKeysArg, keysOut>>

NodeNext == CallExecuteNode

NodeSpec == NodeInit /\ [][NodeNext]_vars

(* ----------------------- specification: isUrlSafe ---------------------- *)
\* the strings new URL() accepts
ParseableUrls ==
  {"http://127.0.0.1/admin", "https://api.dev/v1", "http://localhost/",
   "https://localhost/", "ftp://localhost/", "http://LOCALHOST/", "https://LOCALHOST/",
   "ftp://LOCALHOST/", "http://localhost.evil.com/", "https://localhost.evil.com/",
   "ftp://localhost.evil.com/", "http://notlocalhost.com/", "https://notlocalhost.com/",
   "ftp://notlocalhost.com/", "http://127.0.0.1/", "https://127.0.0.1/",
   "ftp://127.0.0.1/", "http://127.0.0.10/", "https://127.0.0.10/", "ftp://127.0.0.10/",
   "http://0.0.0.0/", "https://0.0.0.0/", "ftp://0.0.0.0/", "http://169.254.169.254/",
   "https://169.254.169.254/", "ftp://169.254.169.254/",
   "http://metadata.google.internal/", "https://metadata.google.internal/",
   "ftp://metadata.google.internal/", "http://10.0.0.5/", "https://10.0.0.5/",
   "ftp://10.0.0.5/", "http://10.example.com/", "https://10.example.com/",
   "ftp://10.example.com/", "http://100.1.1.1/", "https://100.1.1.1/",
   "ftp://100.1.1.1/", "http://172.16.0.1/", "https://172.16.0.1/", "ftp://172.16.0.1/",
   "http://172.17.0.1/", "https://172.17.0.1/", "ftp://172.17.0.1/",
   "http://172.31.255.1/", "https://172.31.255.1/", "ftp://172.31.255.1/",
   "http://172.160.0.1/", "https://172.160.0.1/", "ftp://172.160.0.1/",
   "http://192.168.1.1/", "https://192.168.1.1/", "ftp://192.168.1.1/",
   "http://192.169.1.1/", "https://192.169.1.1/", "ftp://192.169.1.1/",
   "http://api.dev/", "https://api.dev/", "ftp://api.dev/", "http://example.com/",
   "https://example.com/", "ftp://example.com/", "http://[::1]/", "https://[::1]/",
   "ftp://[::1]/", "foo://LOCALHOST/", "HTTP://api.dev/", "localhost:3000",
   "mailto:a@api.dev"}

\* strings new URL() throws on
UnparseableUrls ==
  {"", "not a url", "//api.dev/", "http://", "api.dev", "/admin"}

UrlInit ==
  /\ nodes = <<>>
  /\ edges = <<>>
  /\ op = "idle"
  /\ sortOut = Undefined
  /\ cyclesOut = Undefined
  /\ resultsArg = <<>>
  /\ inputsOut = Undefined
  /\ validateOut = Undefined
  /\ EngineIdle
  /\ issuesArg = <<>>
  /\ scoreOut = Undefined
  /\ nodeArg = Undefined
  /\ nodeOut = Undefined
  /\ urlArg \in ParseableUrls \cup UnparseableUrls
  /\ urlOut = Undefined
  /\ apiKeysArg = <<>>
  /\ keysOut = Undefined

\* isUrlSafe(url)
CallIsUrlSafe ==
  /\ op = "idle"
  /\ op' = "checked"
  /\ urlOut' = Some(isUrlSafe(urlArg))
  /\ UNCHANGED <<nodes, edges, sortOut, cyclesOut, resultsArg, inputsOut, validateOut,
                 engineVars, issuesArg, scoreOut, nodeArg, nodeOut, urlArg, apiKeysArg, keysOut>>

UrlNext == CallIsUrlSafe

UrlSpec == UrlInit /\ [][UrlNext]_vars

(* --------------------- specification: validateApiKeys ------------------ *)
MaxKeyNodes == 2

KeyNodeKinds ==
  {[type |-> "start", data |-> NoData],
   [type |-> "imageGeneration", data |-> NoData],
   [type |-> "textModel", data |-> NoData],
   [type |-> "textModel", data |-> [NoData EXCEPT !.model = "openai/gpt-4o"]],
   [type |-> "textModel", data |-> [NoData EXCEPT !.model = "google/gemini-pro"]],
   [type |-> "textModel", data |-> [NoData EXCEPT !.model = "gpt-4o"]]}

Providers == {"openai", "google"}

KeyValues == {"''", "' '", "sk-1"}

\* the credential objects: each provider is absent or has one of the values
ApiKeys ==
  UNION {[ps -> KeyValues] : ps \in SUBSET Providers}

KeysInit ==
  /\ nodes \in {[i \in 1..Len(ks) |-> [mkNode(IdPool[i]) EXCEPT !.type = ks[i].type,
                                                                 !.data = ks[i].data]] :
                  ks \in SeqsUpTo(KeyNodeKinds, MaxKeyNodes)}
  /\ edges = <<>>
  /\ op = "idle"
  /\ sortOut = Undefined
  /\ cyclesOut = Undefined
  /\ resultsArg = <<>>
  /\ inputsOut = Undefined
  /\ validateOut = Undefined
  /\ EngineIdle
  /\ issuesArg = <<>>
  /\ scoreOut = Undefined
  /\ nodeArg = Undefined
  /\ nodeOut = Undefined
  /\ urlArg = "undefined"
  /\ urlOut = Undefined
  /\ apiKeysArg \in ApiKeys
  /\ keysOut = Undefined

\* validateApiKeys(apiKeys, nodes)
CallValidateApiKeys ==
  /\ op = "idle"
  /\ op' = "keys"
  /\ keysOut' = Some(validateApiKeys(apiKeysArg, nodes))
  /\ UNCHANGED <<nodes, edges, sortOut, cyclesOut, resultsArg, inputsOut, validateOut,
                 engineVars, issuesArg, scoreOut, nodeArg, nodeOut, urlArg, urlOut, apiKeysArg>>

KeysNext == CallValidateApiKeys

KeysSpec == KeysInit /\ [][KeysNext]_vars

(* ------------- specification: two calls on one engine instance --------- *)
\* one call more than EngineSpec makes on the instance
ReentrantRunIds == 1..(MaxRuns + 1)

ReentrantInit ==
  /\ \E ids \in subsequences(SubSeq(IdPool, 1, MaxRunNodes)) :
       nodes \in {[i \in 1..Len(ids) |->
                     [mkNode(ids[i]) EXCEPT !.type = ks[i].type, !.data = ks[i].data,
                                            !.x = Len(ids) - i]] :
                    ks \in [1..Len(ids) -> RunKinds]}
  /\ edges \in {mkEdges(s) :
                  s \in SeqsUpTo([source : RunNodeIds, target : RunNodeIds], MaxRunEdges)}
  /\ op = "engine"
  /\ sortOut = Undefined
  /\ cyclesOut = Undefined
  /\ resultsArg = <<>>
  /\ inputsOut = Undefined
  /\ validateOut = Undefined
  /\ abortController = NoController
  /\ aborted = {}
  /\ runs = [r \in ReentrantRunIds |-> IdleRun]
  /\ abortAt = [r \in ReentrantRunIds |-> -1]
  /\ CallsIdle

ReentrantNext ==
  \/ \E r \in DOMAIN runs : ExecuteWorkflow(r)
  \/ \E r \in DOMAIN runs : NodeSettles(r)
  \/ Abort

ReentrantSpec == ReentrantInit /\ [][ReentrantNext]_vars

(* ======================= properties of the sorter ====================== *)
idsOf(ns) == {ns[i].id : i \in 1..Len(ns)}

successors(es, S) == {es[i].target : i \in {j \in 1..Len(es) : es[j].source \in S}}

RECURSIVE reachableFrom(_, _)
\* the ids reachable from S along zero or more edges
reachableFrom(es, S) ==
  LET T == S \cup successors(es, S)
  IN IF T = S THEN S ELSE reachableFrom(es, T)

onCycle(es, c) == c \in reachableFrom(es, successors(es, {c}))

hasDirectedCycle(es) == \E c \in AllIds : onCycle(es, c)

hasReachableCycle(ns, es) == \E c \in reachableFrom(es, idsOf(ns)) : onCycle(es, c)

indexIn(sorted, id) == CHOOSE i \in 1..Len(sorted) : sorted[i].id = id

\* C1: on an acyclic graph topologicalSort reports no cycle and returns every
\* node exactly once, each edge's source before its target, whatever the
\* order of the nodes array and of the edges.
C1_TopologicalOrder ==
  (op = "sorted" /\ ~hasDirectedCycle(edges)) =>
    LET r == Get(sortOut)
    IN /\ r.hasCycle = FALSE
       /\ Len(r.sorted) = Len(nodes)
       /\ Range(r.sorted) = Range(nodes)
       /\ \A i \in 1..Len(edges) :
            (edges[i].source \in idsOf(nodes) /\ edges[i].target \in idsOf(nodes)) =>
              indexIn(r.sorted, edges[i].source) < indexIn(r.sorted, edges[i].target)

\* an acyclic graph with fan-in whose nodes array lists a target before its source
C1_Witness ==
  /\ op = "sorted"
  /\ ~hasDirectedCycle(edges)
  /\ Len(nodes) = 3
  /\ \E i, j \in 1..Len(edges) :
       /\ i # j
       /\ edges[i].target = edges[j].target
       /\ edges[i].source # edges[j].source
       /\ {edges[i].source, edges[j].source, edges[i].target} = idsOf(nodes)
       /\ nodes[1].id = edges[i].target
  /\ Get(sortOut).hasCycle = FALSE

\* C2: hasCycle is true exactly when a directed cycle (self-loops included)
\* is reachable from the nodes array, and cycleNodes is a non-empty list
\* exactly when hasCycle is true and absent otherwise.
C2_HasCycleIff ==
  op = "sorted" =>
    LET r == Get(sortOut)
    IN /\ r.hasCycle = hasReachableCycle(nodes, edges)
       /\ r.hasCycle => (r.cycleNodes # Undefined /\ Len(Get(r.cycleNodes)) > 0)
       /\ ~r.hasCycle => r.cycleNodes = Undefined

\* a cycle that is entered through a non-cyclic entry node, next to a
\* cross edge into an already finished node
C2_Witness ==
  /\ op = "sorted"
  /\ Get(sortOut).hasCycle
  /\ Len(nodes) = 3
  /\ Len(entryNodes(nodes, edges)) > 0
  /\ idsOf(nodes) \ nodesWithIncoming(edges) # {}
  /\ Len(Get(Get(sortOut).cycleNodes)) > 0

\* C7: validateWorkflow returns an issue list without throwing for every
\* finite graph, cyclic graphs, self-loops and dangling endpoints included.
C7_ValidateReturns ==
  op = "validated" => Get(validateOut).threw = FALSE

\* C8: every entry of detectCycles' result starts and ends with the same id
\* and every pair of consecutive ids of the entry is joined by an edge of
\* the graph in that direction, for every entry, also those found after an
\* earlier cycle was reported.
C8_CyclesArePaths ==
  op = "cycles" =>
    LET cycles == Get(cyclesOut)
    IN \A c \in 1..Len(cycles) :
         LET entry == cycles[c]
         IN /\ Len(entry) >= 2
            /\ entry[1] = entry[Len(entry)]
            /\ \A k \in 1..(Len(entry) - 1) :
                 \E i \in 1..Len(edges) :
                   edges[i].source = entry[k] /\ edges[i].target = entry[k + 1]

(* ======================= properties of the engine ====================== *)
isDone(r) == runs[r].pc = "done"

eventsOfType(run, type) == SelectSeq(run.events, LAMBDA u : u.type = type)

\* C3: on an N-node acyclic graph, with no failing node and abort() never
\* called, a finished run has emitted exactly node_start(n1),
\* node_complete(n1), ..., node_start(nN), node_complete(nN), complete, in
\* topologicalSort's order; it returns success=true and results has exactly
\* one entry per node, equal to the output of that node's node_complete.
C3_HappyPathEvents ==
  \A r \in DOMAIN runs :
    (/\ isDone(r)
     /\ ~hasDirectedCycle(edges)
     /\ abortAt[r] = -1
     /\ Len(eventsOfType(runs[r], "node_error")) = 0) =>
      LET order == topologicalSort(nodes, edges).sorted
          N == Len(nodes)
          ev == runs[r].events
          ret == Get(runs[r].ret)
      IN /\ Len(order) = N
         /\ Len(ev) = 2 * N + 1
         /\ \A i \in 1..N :
              /\ ev[2 * i - 1] = mkUpdate("node_start", order[i].id, "undefined", NoError)
              /\ ev[2 * i].type = "node_complete"
              /\ ev[2 * i].nodeId = order[i].id
              /\ ev[2 * i].error = NoError
              /\ order[i].id \in DOMAIN ret.results
              /\ ret.results[order[i].id] = ev[2 * i].output
         /\ ev[2 * N + 1] = mkUpdate("complete", "undefined", "undefined", NoError)
         /\ ret.success = TRUE
         /\ ret.error = NoError
         /\ DOMAIN ret.results = idsOf(nodes)
         /\ Cardinality(DOMAIN ret.results) = N

\* a two-node chain listed against its execution order ran to completion
C3_Witness ==
  \E r \in DOMAIN runs :
    /\ isDone(r)
    /\ abortAt[r] = -1
    /\ Len(nodes) = 2
    /\ Len(edges) = 1
    /\ ~hasDirectedCycle(edges)
    /\ nodes[1].id = edges[1].target
    /\ nodes[2].id = edges[1].source
    /\ Get(runs[r].ret).success
    /\ Len(runs[r].events) = 5

\* C4: if abort() is called before node k of a run is started (for k = 1
\* also before the run reaches its first node), the run returns
\* success=false and emits no node_start for node k or a later node.
C4_AbortBeforeNodeK ==
  \A r \in DOMAIN runs :
    (/\ isDone(r)
     /\ abortAt[r] # -1
     /\ ~topologicalSort(nodes, edges).hasCycle
     /\ abortAt[r] < Len(nodes)) =>
      /\ Get(runs[r].ret).success = FALSE
      /\ nodeStarts(runs[r]) <= abortAt[r]

isSuffix(suffix, str) ==
  /\ Len(suffix) <= Len(str)
  /\ SubSeq(str, Len(str) - Len(suffix) + 1, Len(str)) = suffix

\* C5: when the node in flight fails, the run emits node_error for it with
\* the failure message, then the terminal error event, and nothing else
\* after that node's node_start; it returns success=false, results={} and
\* an error that contains the node's id and the underlying message.
C5_NodeFailureStopsRun ==
  [][\A r \in DOMAIN runs :
       /\ (runs[r].pc = "awaiting" /\ runs[r].pending.threw /\ runs'[r] # runs[r]) =>
            LET node == runs[r].sorted[runs[r].idx]
                cause == runs[r].pending.error
                ev == runs[r].events
                ret == Get(runs'[r].ret)
            IN /\ ev[Len(ev)] = mkUpdate("node_start", node.id, "undefined", NoError)
               /\ Len(cause) > 0
               /\ runs'[r].events =
                    ev \o <<mkUpdate("node_error", node.id, "undefined", cause),
                            mkUpdate("error", "undefined", "undefined", ret.error)>>
               /\ runs'[r].pc = "done"
               /\ ret.success = FALSE
               /\ ret.results = <<>>
               /\ node.id \in Range(ret.error)
               /\ isSuffix(cause, ret.error)
       /\ runs[r].pc = "done" => runs'[r] = runs[r]]_vars

\* the second node of a run failed after the first had completed
C5_Witness ==
  \E r \in DOMAIN runs :
    /\ isDone(r)
    /\ Len(eventsOfType(runs[r], "node_complete")) = 1
    /\ Len(eventsOfType(runs[r], "node_error")) = 1
    /\ Len(runs[r].events) = 5
    /\ Get(runs[r].ret).results = <<>>
    /\ Get(runs[r].ret).success = FALSE

\* C6: when topologicalSort reports a cycle, executeWorkflow executes no
\* node: exactly one event, the terminal error, is emitted, and it returns
\* success=false, results={} and an error that names the cycle.
C6_CycleRejected ==
  \A r \in DOMAIN runs :
    topologicalSort(nodes, edges).hasCycle =>
      /\ runs[r].pc \in {"idle", "done"}
      /\ isDone(r) =>
           LET ret == Get(runs[r].ret)
           IN /\ runs[r].events = <<mkUpdate("error", "undefined", "undefined", ret.error)>>
              /\ ret.success = FALSE
              /\ ret.results = <<>>
              /\ ret.error[1] = "Workflow contains cycles: "
              /\ Len(ret.error) > 1
              /\ \A i \in 2..Len(ret.error) :
                   ret.error[i] = ", " \/ onCycle(edges, ret.error[i])

\* a run on a two-node graph with an entry node and a cycle
C6_Witness ==
  \E r \in DOMAIN runs :
    /\ isDone(r)
    /\ Len(nodes) = 2
    /\ Len(entryNodes(nodes, edges)) = 1
    /\ hasDirectedCycle(edges)
    /\ Len(runs[r].events) = 1
    /\ Get(runs[r].ret).success = FALSE

\* the x the claim assigns to an edge's source: position.x, 0 when the
\* source is not in nodes
xOfSource(e) ==
  IF \E i \in 1..Len(nodes) : nodes[i].id = e.source
  THEN (CHOOSE n \in Range(nodes) : n.id = e.source).x
  ELSE 0

incomingOf(id) == {i \in 1..Len(edges) : edges[i].target = id}

\* the key index the claim gives edge i: one more than the number of incoming
\* edges with a smaller x, or with the same x and an earlier place in edges
rankOf(i) ==
  1 + Cardinality({j \in incomingOf(InputsNodeId) :
                     \/ xOfSource(edges[j]) < xOfSource(edges[i])
                     \/ (xOfSource(edges[j]) = xOfSource(edges[i]) /\ j < i)})

\* C10: getNodeInputs returns exactly the keys input1..inputM, M the number
\* of edges into nodeId; keys follow ascending position.x of the edges'
\* sources (absent source: 0), ties in original edge order; each key maps to
\* the recorded result of its edge's source or undefined; the edges array
\* is unchanged.
C10_InputsOrderedByX ==
  [][op' = "inputs" =>
       LET r == Get(inputsOut')
           M == Cardinality(incomingOf(InputsNodeId))
       IN /\ DOMAIN r.inputs = 1..M
          /\ \A i \in incomingOf(InputsNodeId) :
               /\ r.order[rankOf(i)] = edges[i].id
               /\ r.inputs[rankOf(i)] =
                    (IF edges[i].source \in DOMAIN resultsArg
                     THEN resultsArg[edges[i].source] ELSE "undefined")
          /\ edges' = edges]_vars

\* three inputs, two of them with the same x, listed against the x order,
\* one from a source outside nodes and one without a recorded result
C10_Witness ==
  /\ op = "inputs"
  /\ Cardinality(incomingOf(InputsNodeId)) = 3
  /\ \E i, j, k \in incomingOf(InputsNodeId) :
       /\ i < j /\ j < k
       /\ xOfSource(edges[i]) > xOfSource(edges[j])
       /\ xOfSource(edges[j]) = xOfSource(edges[k])
       /\ edges[j].source # edges[k].source
       /\ edges[k].source \notin idsOf(nodes)
       /\ Get(inputsOut).order = <<j, k, i>>
  /\ \E k \in 1..3 : Get(inputsOut).inputs[k] = "undefined"
  /\ \E k \in 1..3 : Get(inputsOut).inputs[k] # "undefined"

\* C9: for nodes A, B with edges A->B, B->A topologicalSort reports
\* hasCycle=true and a cycleNodes list containing both A and B.
C9_ScenarioB ==
  (/\ op = "sorted"
   /\ nodes = <<mkNode("A"), mkNode("B")>>
   /\ edges = mkEdges(<<[source |-> "A", target |-> "B"], [source |-> "B", target |-> "A"]>>)) =>
    LET r == Get(sortOut)
    IN /\ r.hasCycle
       /\ r.cycleNodes # Undefined
       /\ {"A", "B"} \subseteq Range(Get(r.cycleNodes))

(* ======================= properties of scoring ========================= *)
errorsIn(issues) == Cardinality({i \in 1..Len(issues) : issues[i].type = "error"})
warningsIn(issues) == Cardinality({i \in 1..Len(issues) : issues[i].type = "warning"})

\* C11: the score is max(0, 40 - 10*errors) when there are errors, else
\* max(60, 90 - 10*warnings) when there are warnings, else 100; it lies in
\* 0..100, never increases when an error or a warning is added, ignores
\* info issues, and is 100 exactly when there is no error and no warning.
C11_ScoreFormula ==
  [][op' = "scored" =>
       LET score == Get(scoreOut').score
           e == errorsIn(issuesArg')
           w == warningsIn(issuesArg')
       IN /\ e > 0 => score = (IF 40 - 10 * e > 0 THEN 40 - 10 * e ELSE 0)
          /\ (e = 0 /\ w > 0) => score = (IF 90 - 10 * w > 60 THEN 90 - 10 * w ELSE 60)
          /\ (e = 0 /\ w = 0) => score = 100
          /\ score \in 0..100
          /\ (score = 100) <=> (e = 0 /\ w = 0)
          /\ (op = "scored" /\ Len(issuesArg') = Len(issuesArg) + 1) =>
               /\ score <= Get(scoreOut).score
               /\ issuesArg'[Len(issuesArg')].type = "info" => score = Get(scoreOut).score]_vars

\* a list of four warnings and an info was scored at the floor of 60
C11_Witness ==
  /\ op = "scored"
  /\ warningsIn(issuesArg) = 4
  /\ errorsIn(issuesArg) = 0
  /\ Len(issuesArg) = 5
  /\ Get(scoreOut).score = 60

\* C19: the grade of the score is F exactly when the list holds an error;
\* without an error it is A for no warning, B for one, C for two and D for
\* three or more; the score takes only the values 0, 10, 20, 30, 60, 70,
\* 80 and 100.
C19_GradeByCounts ==
  op = "scored" =>
    LET grade == Get(scoreOut).grade
        e == errorsIn(issuesArg)
        w == warningsIn(issuesArg)
    IN /\ (grade = "F") <=> (e >= 1)
       /\ e = 0 =>
            /\ (grade = "A") <=> (w = 0)
            /\ (grade = "B") <=> (w = 1)
            /\ (grade = "C") <=> (w = 2)
            /\ (grade = "D") <=> (w >= 3)
       /\ Get(scoreOut).score \in {0, 10, 20, 30, 60, 70, 80, 100}

\* a list with exactly two warnings and no error was graded C
C19_Witness ==
  /\ op = "scored"
  /\ errorsIn(issuesArg) = 0
  /\ warningsIn(issuesArg) = 2
  /\ Len(issuesArg) = 3
  /\ Get(scoreOut).grade = "C"

(* ====================== properties of executeNode ====================== *)
\* C12: the end behaviour returns inputs.input1 whenever the key input1 is
\* present, whatever its value (0, false and the empty string included),
\* and returns the empty string only when input1 is absent.
C12_EndReturnsInput1 ==
  (op = "executed" /\ Get(nodeArg).node.type = "end") =>
    LET given == Get(nodeArg).inputs
        out == Get(nodeOut)
    IN /\ ~out.threw
       /\ Len(given) >= 1 => out.value = given[1]
       /\ Len(given) = 0 => out.value = "''"

(* ================== properties of orphans in a run ===================== *)
\* C13: a node validateWorkflow reports as an orphan will not execute:
\* executeWorkflow on that graph never emits node_start for it and records
\* no result for it.
C13_OrphanNeverRuns ==
  \A r \in DOMAIN runs :
    LET orphans == orphanNodes(nodes, edges)
    IN \A i \in 1..Len(orphans) :
         /\ \A j \in 1..Len(runs[r].events) :
              runs[r].events[j].type = "node_start" =>
                runs[r].events[j].nodeId # orphans[i].id
         /\ orphans[i].id \notin DOMAIN runs[r].results

(* ======================== properties of isUrlSafe ====================== *)
\* the host prefixes the documentation lists as blocked
blockedPrefixes ==
  { <<"l", "o", "c", "a", "l", "h", "o", "s", "t">>,
    <<"1", "2", "7", ".", "0", ".", "0", ".", "1">>,
    <<"0", ".", "0", ".", "0", ".", "0">>,
    <<"1", "6", "9", ".", "2", "5", "4", ".", "1", "6", "9", ".", "2", "5", "4">>,
    <<"m", "e", "t", "a", "d", "a", "t", "a", ".", "g", "o", "o", "g", "l", "e", ".",
      "i", "n", "t", "e", "r", "n", "a", "l">>,
    <<"1", "0", ".">>,
    <<"1", "7", "2", ".", "1", "6", ".">>,
    <<"1", "9", "2", ".", "1", "6", "8", ".">> }

hasPrefix(str, prefix) ==
  /\ Len(str) >= Len(prefix)
  /\ \A i \in 1..Len(prefix) : str[i] = prefix[i]

\* 172.17. and 172.31., two of the ranges 172.17.x to 172.31.x
docker172 ==
  { <<"1", "7", "2", ".", "1", "7", ".">>, <<"1", "7", "2", ".", "3", "1", ".">> }

\* C14: isUrlSafe(url) is true exactly when url parses as a URL, its scheme
\* is http or https, and its lower-cased hostname neither equals nor starts
\* with one of the blocked entries; hostnames in 172.17.x to 172.31.x with
\* an http/https scheme are safe, and an unparseable string is unsafe.
C14_SafeIff ==
  op = "checked" =>
    LET parsed == parseUrl(urlArg)
        parses == parsed # Undefined
        host == toLowerCase(Get(parsed).hostname)
        expected ==
          /\ parses
          /\ Get(parsed).protocol \in {"http:", "https:"}
          /\ \A b \in blockedPrefixes : ~hasPrefix(host, b)
    IN /\ urlOut = Some(expected)
       /\ urlArg \in UnparseableUrls => urlOut = Some(FALSE)
       /\ (/\ parses
           /\ Get(parsed).protocol \in {"http:", "https:"}
           /\ \E d \in docker172 : hasPrefix(host, d)) => urlOut = Some(TRUE)

\* an https URL on 172.31.255.1 was reported safe
C14_Witness ==
  /\ op = "checked"
  /\ urlArg = "https://172.31.255.1/"
  /\ urlOut = Some(TRUE)

(* ===================== properties of validateApiKeys =================== *)
\* the provider p of a model name of the form p/modelName, if it has that form
providerOfSlashForm(model) ==
  CASE model = "openai/gpt-4o" -> Some("openai")
    [] model = "google/gemini-pro" -> Some("google")
    [] OTHER -> Undefined

requiredByClaim(ns) ==
  UNION {providerOfSlashForm(ns[i].data.model) : i \in {j \in 1..Len(ns) : ns[j].type = "textModel"}}
  \cup (IF \E i \in 1..Len(ns) : ns[i].type = "imageGeneration" THEN {"google"} ELSE {})

blankOrMissing(apiKeys, p) ==
  p \notin DOMAIN apiKeys \/ apiKeys[p] \in {"''", "' '"}

\* C15: validateApiKeys emits an error issue for provider p exactly when p
\* is required (a textModel node's model is p/modelName, or p is google and
\* an imageGeneration node exists) and its credential is missing or blank;
\* one issue per such provider, and none when no required one is missing.
C15_IssuePerMissingProvider ==
  op = "keys" =>
    LET out == Get(keysOut)
        missing == {p \in requiredByClaim(nodes) : blankOrMissing(apiKeysArg, p)}
    IN /\ {out[i].field : i \in 1..Len(out)} = missing
       /\ Len(out) = Cardinality(missing)
       /\ \A i \in 1..Len(out) : out[i].type = "error"

(* ================== properties of cooperative cancellation ============= *)
\* C16: abort() called while node k executes does not preempt it: node k
\* settles normally (node_complete with its output when it succeeds) and the
\* abort is observed at the check before node k+1, where the run fails with
\* the abort message; when node k is the last node the run still emits
\* complete and returns success=true with all N results.
C16_AbortObservedAtNextBoundary ==
  \A r \in DOMAIN runs :
    (/\ abortAt[r] >= 1
     /\ isDone(r)
     /\ Len(eventsOfType(runs[r], "node_error")) = 0) =>
      LET k == abortAt[r]
          order == runs[r].sorted
          N == Len(order)
          ev == runs[r].events
          ret == Get(runs[r].ret)
      IN /\ Len(ev) = 2 * k + 1
         /\ ev[2 * k - 1] = mkUpdate("node_start", order[k].id, "undefined", NoError)
         /\ ev[2 * k].type = "node_complete"
         /\ ev[2 * k].nodeId = order[k].id
         /\ ev[2 * k].output = runs[r].results[order[k].id]
         /\ k < N =>
              /\ ev[2 * k + 1] = mkUpdate("error", "undefined", "undefined", <<"Execution aborted">>)
              /\ ret = [success |-> FALSE, results |-> <<>>, error |-> <<"Execution aborted">>]
         /\ k = N =>
              /\ ev[2 * k + 1] = mkUpdate("complete", "undefined", "undefined", NoError)
              /\ ret.success = TRUE
              /\ DOMAIN ret.results = idsOf(nodes)

\* C17: under every interleaving of calls on one instance, a run that was
\* in progress with a node still to start when abort() was called emits no
\* further node_start and returns success=false, also when another
\* executeWorkflow call begins before the run's next node boundary.
C17_AbortHoldsUnderInterleaving ==
  \A r \in DOMAIN runs :
    (abortAt[r] >= 1 /\ abortAt[r] < Len(runs[r].sorted)) =>
      /\ nodeStarts(runs[r]) = abortAt[r]
      /\ isDone(r) => Get(runs[r].ret).success = FALSE

(* ================ properties of the two cycle detectors ================ *)
\* executeWorkflow on the graph returns at once with the cycle error
rejectsAsCyclic(ns, es) ==
  LET run == beginRun(IdleRun, NoController, {}, ns, es)
  IN /\ run.pc = "done"
     /\ ~Get(run.ret).success
     /\ Len(Get(run.ret).error) >= 1
     /\ Get(run.ret).error[1] = "Workflow contains cycles: "

\* C18: on every graph with unique node ids detectCycles returns a non-empty
\* list exactly when topologicalSort's hasCycle is true, so executeWorkflow
\* rejects a graph with the cycle error exactly when the validator finds a
\* cycle in it.
C18_DetectorsAgree ==
  op = "cycles" =>
    LET found == Len(Get(cyclesOut)) > 0
    IN /\ found = topologicalSort(nodes, edges).hasCycle
       /\ found = rejectsAsCyclic(nodes, edges)

\* both detectors report a cycle that does not pass through the first node
\* of the array
C18_Witness ==
  /\ op = "cycles"
  /\ Len(nodes) >= 2
  /\ ~onCycle(edges, nodes[1].id)
  /\ Len(Get(cyclesOut)) > 0
  /\ topologicalSort(nodes, edges).hasCycle

====
